---- MODULE Spec2Model ----
(***************************************************************************)
(* The gateway client of companies-house-mcp: the token-bucket rate        *)
(* limiter (lib/rate-limiter), the bounded TTL cache (lib/cache), the      *)
(* error classes (lib/errors) and the CompaniesHouseClient that composes   *)
(* them (lib/client).                                                      *)
(*                                                                         *)
(* Time is Date.now() in milliseconds.  Numbers are JavaScript doubles in  *)
(* the code; the model computes in integers and decides, where the code    *)
(* divides, what the rounding of the double does to Math.floor(timePassed  *)
(* * (maxTokens / refillInterval)) and to Math.ceil(x / (maxTokens /       *)
(* refillInterval)).                                                       *)
(***************************************************************************)
EXTENDS Integers, Sequences, FiniteSets, TLC

VARIABLES
    now,            \* Date.now()
    maxTokens,      \* RateLimiter.maxTokens
    refillInterval, \* RateLimiter.refillInterval
    tokens,         \* RateLimiter.tokens
    lastRefill,     \* RateLimiter.lastRefill
    maxSize,        \* Cache.maxSize
    items,          \* Cache.items, a Map: the sequence of its entries in insertion order
    calls,          \* the invocations of the client's methods, one per call slot
    started,        \* number of invocations started so far
    sent,           \* number of fetch() calls issued so far
    ret,            \* what the last call of a limiter, cache or classifier method returned;
                    \* in a client run, what the step just taken returned to a caller
    hist,           \* the checkLimit calls made so far, oldest first
    lastSet         \* per key, the last Cache.set not yet undone by an eviction, delete or clear

vars == <<now, maxTokens, refillInterval, tokens, lastRefill, maxSize, items,
          calls, started, sent, ret, hist, lastSet>>

limiterVars == <<maxTokens, refillInterval, tokens, lastRefill>>
cacheVars == <<maxSize, items>>
clientVars == <<calls, started, sent>>

Min(a, b) == IF a < b THEN a ELSE b
Max(a, b) == IF a > b THEN a ELSE b
\* Math.ceil(a / b) for a >= 0, b > 0
CeilDiv(a, b) == (a + b - 1) \div b

(***************************************************************************)
(* The arithmetic of the limiter.  maxTokens / refillInterval, its product *)
(* with timePassed and the quotient of the missing tokens by it are IEEE   *)
(* doubles in the code.  The double nearest to p / q is held as the        *)
(* fraction; what the rounding does to Math.floor and Math.ceil is        *)
(* decided below from the remainder of the division, in integers.  The     *)
(* operands stay below 2^23, where these are exact.                        *)
(***************************************************************************)
RECURSIVE Gcd(_, _)
Gcd(a, b) == IF b = 0 THEN a ELSE Gcd(b, a % b)

\* floor(log2(n)) for n >= 1
RECURSIVE FloorLog2(_)
FloorLog2(n) == IF n < 2 THEN 0 ELSE 1 + FloorLog2(n \div 2)

IsPowerOfTwo(n) == 2 ^ FloorLog2(n) = n

\* the exponent e of p / q: 2^e <= p / q < 2^(e + 1)
Exponent(p, q) ==
    LET lp == FloorLog2(p)
        lq == FloorLog2(q)
    IN  IF lp >= lq
        THEN IF p >= q * 2 ^ (lp - lq) THEN lp - lq ELSE lp - lq - 1
        ELSE IF p * 2 ^ (lq - lp) >= q THEN lp - lq ELSE lp - lq - 1

\* (r * 2^k) % q, eight bits at a time
RECURSIVE ShiftMod(_, _, _)
ShiftMod(r, q, k) ==
    IF k >= 8 THEN ShiftMod((256 * r) % q, q, k - 8)
    ELSE (2 ^ k * r) % q

\* the rounding of p / q (in lowest terms) to 53 bits: the d with
\* fl(p / q) = p / q + (d / q) * 2^(e - 52), e the exponent of p / q;
\* negative when the division rounds down, 0 when it is exact
Residual(p, q) ==
    LET rem == ShiftMod(p % q, q, 52 - Exponent(p, q))
    IN  IF 2 * rem < q THEN 0 - rem ELSE q - rem

\* a * b for 0 <= a, b < 2^30, as <<high, low>> in base 2^30
MulWide(a, b) ==
    LET a1 == a \div 2 ^ 15
        a0 == a % 2 ^ 15
        b1 == b \div 2 ^ 15
        b0 == b % 2 ^ 15
        mid == a1 * b0 + a0 * b1
        low == a0 * b0 + (mid % 2 ^ 15) * 2 ^ 15
    IN  <<a1 * b1 + mid \div 2 ^ 15 + low \div 2 ^ 30, low % 2 ^ 30>>

\* a * b * 2^s as <<top, high, low>> in base 2^30, for 0 <= s < 60
MulShift(a, b, s) ==
    IF s < 30
    THEN LET w == MulWide(a, b)
             h == MulWide(w[1], 2 ^ s)
             l == MulWide(w[2], 2 ^ s)
         IN  <<h[1] + (h[2] + l[1]) \div 2 ^ 30, (h[2] + l[1]) % 2 ^ 30, l[2]>>
    ELSE LET w == MulWide(a, b)
             l == MulWide(w[2], 2 ^ (s - 30))
         IN  <<w[1] * 2 ^ (s - 30) + l[1], l[2], 0>>

\* u < v for numbers of three digits
LessWide(u, v) ==
    \/ u[1] < v[1]
    \/ u[1] = v[1] /\ u[2] < v[2]
    \/ u[1] = v[1] /\ u[2] = v[2] /\ u[3] < v[3]

\* maxTokens / refillInterval: the double, held as the fraction in lowest terms
Quotient(mx, iv) == [p |-> mx \div Gcd(mx, iv), q |-> iv \div Gcd(mx, iv)]

\* Math.floor(timePassed * rate).  When timePassed * p / q is no whole number
\* the rounding cannot reach the next one; when it is the whole number n, the
\* product is below n if the division rounded down, and it is rounded to the
\* double below n if it falls short of n by more than half the gap below n.
FloorTimes(timePassed, rate) ==
    IF timePassed = 0 \/ (timePassed * rate.p) % rate.q # 0
    THEN (timePassed * rate.p) \div rate.q
    ELSE LET n == (timePassed * rate.p) \div rate.q
             d == Residual(rate.p, rate.q)
             below == IF IsPowerOfTwo(n) THEN FloorLog2(n) - 1 ELSE FloorLog2(n)
             t == below - Exponent(rate.p, rate.q)
         IN  IF d < 0 /\ LessWide(MulShift(rate.q, 1, t), MulShift(2 * timePassed, 0 - d, 0))
             THEN n - 1
             ELSE n

\* Math.ceil(missing / rate).  When missing * q / p is no whole number the
\* rounding cannot reach one; when it is the whole number m, the quotient is
\* above m if the division rounded down, and it is rounded to the double above
\* m if it exceeds m by more than half the gap above m.
CeilOver(missing, rate) ==
    IF (missing * rate.q) % rate.p # 0
    THEN (missing * rate.q) \div rate.p + 1
    ELSE LET m == (missing * rate.q) \div rate.p
             d == Residual(rate.p, rate.q)
             a == Exponent(rate.p, rate.q) + 1
             b == FloorLog2(m)
         IN  IF d < 0 /\ ~LessWide(MulShift(0 - d, m, IF a >= b THEN a - b ELSE 0),
                                  MulShift(rate.p, 1, IF a >= b THEN 0 ELSE b - a))
             THEN m + 1
             ELSE m

(***************************************************************************)
(* Bounds of the model.                                                    *)
(***************************************************************************)
MaxTokensBound == 3     \* limiter capacities 1..MaxTokensBound
MaxIntervalBound == 6   \* limiter refill windows 2..MaxIntervalBound ms
MaxNow == 8             \* the clock of a limiter run stops here (ms)
MaxChecks == 6          \* checkLimit calls per limiter run
MaxCacheSize == 2       \* cache capacities 0..MaxCacheSize, keys k1..k(MaxCacheSize + 1)
MaxCacheOps == 4        \* cache method calls per cache run
MaxCacheTicks == 3      \* seconds that pass in a cache run
ClientRate == 1         \* the client's requestsPerFiveMinutes
ClientCache == 1        \* the client's cacheSize
MaxInFlight == 2        \* client calls in flight at once
MaxInvocations == 2     \* client calls per client run
MaxClientTicks == 1     \* half refill windows that pass in a client run

(***************************************************************************)
(* RateLimiter                                                             *)
(***************************************************************************)
TokensPerRequest == 1
MinWaitMs == 100

NoRet == [op |-> "none"]

\* the refill with the cap on maxTokens left out
RefillTokensUncapped(tk, lr, t, mx, iv) ==
    LET timePassed == t - lr
        refillRate == Quotient(mx, iv)
        tokensToAdd == FloorTimes(timePassed, refillRate)
    IN  IF tokensToAdd > 0
        THEN [tokens |-> tk + tokensToAdd, lastRefill |-> t]
        ELSE [tokens |-> tk, lastRefill |-> lr]

\* the refill of the design's bucket: lastRefill moves to the time of every call
RefillTokensStampsAlways(tk, lr, t, mx, iv) ==
    LET timePassed == t - lr
        refillRate == Quotient(mx, iv)
        tokensToAdd == FloorTimes(timePassed, refillRate)
    IN  [tokens |-> Min(mx, tk + tokensToAdd), lastRefill |-> t]

\* refillTokens(): the fields after a refill at time t
RefillTokens(tk, lr, t, mx, iv) ==
    LET timePassed == t - lr
        refillRate == Quotient(mx, iv)
        tokensToAdd == FloorTimes(timePassed, refillRate)
    IN  IF tokensToAdd > 0
        THEN [tokens |-> Min(mx, tk + tokensToAdd), lastRefill |-> t]
        ELSE [tokens |-> tk, lastRefill |-> lr]

\* the message of the RateLimitError checkLimit throws
RateLimitMessage(waitTimeMs) ==
    "Rate limit exceeded. Please wait " \o ToString(waitTimeMs) \o "ms before retrying."

\* checkLimit() that decrements on a token count read before another call's
\* decrement: it admits a call that finds the bucket empty
CheckLimitStaleRead(tk, lr, t, mx, iv) ==
    LET r == RefillTokens(tk, lr, t, mx, iv)
    IN  IF r.tokens + 1 < TokensPerRequest
        THEN [ok |-> FALSE, tokens |-> r.tokens, lastRefill |-> r.lastRefill,
              waitTimeMs |-> Max(MinWaitMs, CeilOver(TokensPerRequest - r.tokens, Quotient(mx, iv)))]
        ELSE [ok |-> TRUE, tokens |-> r.tokens - TokensPerRequest, lastRefill |-> r.lastRefill,
              waitTimeMs |-> 0]

\* checkLimit(): the fields after the call, whether it resolved, and the wait it reports
CheckLimit(tk, lr, t, mx, iv) ==
    LET r == RefillTokens(tk, lr, t, mx, iv)
    IN  IF r.tokens < TokensPerRequest
        THEN [ok |-> FALSE, tokens |-> r.tokens, lastRefill |-> r.lastRefill,
              waitTimeMs |-> Max(MinWaitMs, CeilOver(TokensPerRequest - r.tokens, Quotient(mx, iv)))]
        ELSE [ok |-> TRUE, tokens |-> r.tokens - TokensPerRequest, lastRefill |-> r.lastRefill,
              waitTimeMs |-> 0]

LimiterConfigs == (1..MaxTokensBound) \X (2..MaxIntervalBound)

\* new RateLimiter(maxTokens, refillInterval) at time 0, nothing else in use
LimiterInit ==
    /\ now = 0
    /\ \E cfg \in LimiterConfigs : maxTokens = cfg[1] /\ refillInterval = cfg[2]
    /\ tokens = maxTokens
    /\ lastRefill = 0
    /\ maxSize = 0
    /\ items = <<>>
    /\ calls = <<>>
    /\ started = 0
    /\ sent = 0
    /\ ret = NoRet
    /\ hist = <<>>
    /\ lastSet = <<>>

\* one call of rateLimiter.checkLimit()
LimiterCheck ==
    /\ Len(hist) < MaxChecks
    /\ LET r == CheckLimit(tokens, lastRefill, now, maxTokens, refillInterval)
       IN  /\ tokens' = r.tokens
           /\ lastRefill' = r.lastRefill
           /\ ret' = [op |-> "checkLimit", ok |-> r.ok, waitTimeMs |-> r.waitTimeMs]
           /\ hist' = Append(hist, [at |-> now, ok |-> r.ok, before |-> tokens])
    /\ UNCHANGED <<now, maxTokens, refillInterval, cacheVars, clientVars, lastSet>>

\* a millisecond passes
LimiterTick ==
    /\ now < MaxNow
    /\ now' = now + 1
    /\ UNCHANGED <<limiterVars, cacheVars, clientVars, ret, hist, lastSet>>

LimiterNext == LimiterCheck \/ LimiterTick

SpecLimiter == LimiterInit /\ [][LimiterNext]_vars

(***************************************************************************)
(* Cache                                                                   *)
(***************************************************************************)
\* what Cache.get returns for a missing or expired key
Null == [kind |-> "null"]

IndexOf(its, key) ==
    IF \E i \in 1..Len(its) : its[i].key = key
    THEN CHOOSE i \in 1..Len(its) : its[i].key = key
    ELSE 0

HasKey(its, key) == IndexOf(its, key) > 0

\* Map.delete(key)
MapDelete(its, key) ==
    LET i == IndexOf(its, key)
    IN  IF i = 0 THEN its ELSE SubSeq(its, 1, i - 1) \o SubSeq(its, i + 1, Len(its))

\* Map.set(key, entry): an existing key keeps its place, a new key goes last
MapSet(its, key, entry) ==
    LET i == IndexOf(its, key)
    IN  IF i = 0 THEN Append(its, entry) ELSE [its EXCEPT ![i] = entry]

\* get(key) at time t: the map afterwards and the value returned
CacheGet(its, key, t) ==
    LET i == IndexOf(its, key)
    IN  IF i = 0
        THEN [items |-> its, value |-> Null]
        ELSE IF its[i].expiresAt < t
             THEN [items |-> MapDelete(its, key), value |-> Null]
             ELSE [items |-> Append(MapDelete(its, key), its[i]), value |-> its[i].value]

\* set that takes ttlSeconds for milliseconds
CacheSetTtlAsMs(its, key, value, ttlSeconds, t, mx) ==
    LET room == IF Len(its) >= mx /\ Len(its) > 0
                THEN MapDelete(its, its[1].key)
                ELSE its
    IN  MapSet(room, key, [key |-> key, value |-> value, expiresAt |-> t + ttlSeconds])

\* set that makes room by dropping the newest entry instead of the oldest
CacheSetEvictNewest(its, key, value, ttlSeconds, t, mx) ==
    LET room == IF Len(its) >= mx /\ Len(its) > 0
                THEN SubSeq(its, 1, Len(its) - 1)
                ELSE its
    IN  MapSet(room, key, [key |-> key, value |-> value, expiresAt |-> t + ttlSeconds * 1000])

\* set(key, value, ttlSeconds) at time t on a cache of capacity mx: the map afterwards
CacheSet(its, key, value, ttlSeconds, t, mx) ==
    LET room == IF Len(its) >= mx /\ Len(its) > 0
                THEN MapDelete(its, its[1].key)
                ELSE its
    IN  MapSet(room, key, [key |-> key, value |-> value, expiresAt |-> t + ttlSeconds * 1000])

\* delete(key)
CacheDelete(its, key) == MapDelete(its, key)

\* clear()
CacheClear(its) == <<>>

\* size()
CacheSize(its) == Len(its)

KeysOf(its) == {its[i].key : i \in 1..Len(its)}

KeyName(i) == "k" \o ToString(i)
Keys == {KeyName(i) : i \in 1..(MaxCacheSize + 1)}
TtlSeconds == {1, 2}
SecondMs == 1 * 1000

NoSet == [kind |-> "none"]
NeverSet == [kind |-> "never"]

\* Keys are interchangeable names: a run names them in the order it first uses
\* them, so a call may name a key used before or the first unused one.
Nameable(key) ==
    \A i \in 2..(MaxCacheSize + 1) :
        key = KeyName(i) => lastSet[KeyName(i - 1)].kind # "never"

\* new Cache(maxSize) at time 0, nothing else in use
CacheInit ==
    /\ now = 0
    /\ maxTokens = 1
    /\ refillInterval = 1
    /\ tokens = 1
    /\ lastRefill = 0
    /\ maxSize \in 0..MaxCacheSize
    /\ items = <<>>
    /\ calls = <<>>
    /\ started = 0
    /\ sent = 0
    /\ ret = NoRet
    /\ hist = <<>>
    /\ lastSet = [k \in Keys |-> NeverSet]

\* cache.set(key, value, ttlSeconds)
CacheSetCall(key, value, ttlSeconds) ==
    /\ started < MaxCacheOps
    /\ Nameable(key)
    /\ started' = started + 1
    /\ items' = CacheSet(items, key, value, ttlSeconds, now, maxSize)
    /\ ret' = [op |-> "set", key |-> key, at |-> now, size |-> CacheSize(items')]
    /\ lastSet' = [k \in Keys |->
                     IF k = key THEN [kind |-> "set", value |-> value,
                                      ttlSeconds |-> ttlSeconds, at |-> now]
                     ELSE IF HasKey(items, k) /\ ~HasKey(items', k) THEN NoSet
                     ELSE lastSet[k]]
    /\ hist' = Append(hist, [op |-> "set", key |-> key, sizeBefore |-> CacheSize(items)])
    /\ UNCHANGED <<now, limiterVars, maxSize, calls, sent>>

\* cache.get(key)
CacheGetCall(key) ==
    /\ started < MaxCacheOps
    /\ Nameable(key)
    /\ started' = started + 1
    /\ LET r == CacheGet(items, key, now)
       IN  /\ items' = r.items
           /\ ret' = [op |-> "get", key |-> key, at |-> now, value |-> r.value,
                      set |-> lastSet[key]]
    /\ hist' = Append(hist, [op |-> "get", key |-> key, sizeBefore |-> CacheSize(items)])
    /\ UNCHANGED <<now, limiterVars, maxSize, calls, sent, lastSet>>

\* cache.delete(key)
CacheDeleteCall(key) ==
    /\ started < MaxCacheOps
    /\ Nameable(key)
    /\ started' = started + 1
    /\ items' = CacheDelete(items, key)
    /\ ret' = [op |-> "delete", key |-> key, at |-> now, size |-> CacheSize(items')]
    /\ lastSet' = [lastSet EXCEPT ![key] = IF @.kind = "never" THEN @ ELSE NoSet]
    /\ hist' = Append(hist, [op |-> "delete", key |-> key, sizeBefore |-> CacheSize(items)])
    /\ UNCHANGED <<now, limiterVars, maxSize, calls, sent>>

\* cache.clear()
CacheClearCall ==
    /\ started < MaxCacheOps
    /\ started' = started + 1
    /\ items' = CacheClear(items)
    /\ ret' = [op |-> "clear", at |-> now, size |-> CacheSize(items')]
    /\ lastSet' = [k \in Keys |-> IF lastSet[k].kind = "never" THEN lastSet[k] ELSE NoSet]
    /\ hist' = Append(hist, [op |-> "clear", key |-> "", sizeBefore |-> CacheSize(items)])
    /\ UNCHANGED <<now, limiterVars, maxSize, calls, sent>>

\* a second passes
CacheTick ==
    /\ now < MaxCacheTicks * SecondMs
    /\ now' = now + SecondMs
    /\ UNCHANGED <<limiterVars, cacheVars, clientVars, ret, hist, lastSet>>

CacheNext ==
    \/ \E k \in Keys, ttl \in TtlSeconds :
          CacheSetCall(k, [kind |-> "value", of |-> started + 1], ttl)
    \/ \E k \in Keys : CacheGetCall(k)
    \/ \E k \in Keys : CacheDeleteCall(k)
    \/ CacheClearCall
    \/ CacheTick

SpecCache == CacheInit /\ [][CacheNext]_vars

(***************************************************************************)
(* Errors                                                                  *)
(***************************************************************************)
NoError == [name |-> "none"]

\* new APIError(message, status, code)
APIError(message, status, code) ==
    [name |-> "APIError", message |-> message, status |-> status, code |-> code]

\* new RateLimitError(message)
RateLimitError(message) ==
    [name |-> "RateLimitError", message |-> message, status |-> 429,
     code |-> "RATE_LIMIT_EXCEEDED"]

\* new ValidationError(message, fieldName)
ValidationError(message) ==
    [name |-> "ValidationError", message |-> message, status |-> 400,
     code |-> "VALIDATION_ERROR"]

\* error instanceof APIError
IsAPIError(error) == error.name = "APIError"

\* error instanceof CompaniesHouseError
IsCompaniesHouseError(error) ==
    error.name \in {"APIError", "RateLimitError", "ValidationError", "NotFoundError",
                    "ConfigurationError", "CompaniesHouseError"}

\* fromStatus with 500 as the only service-error case
FromStatusOnly500(status) ==
    CASE status = 401 -> APIError("Invalid Companies House API key", status, "INVALID_API_KEY")
      [] status = 404 -> APIError("Resource not found", status, "NOT_FOUND")
      [] status = 429 -> APIError("Rate limit exceeded. Please try again later", status,
                                  "RATE_LIMIT_EXCEEDED")
      [] status = 500 -> APIError("Companies House API service error", status, "SERVICE_ERROR")
      [] OTHER -> APIError("An error occurred while accessing the Companies House API",
                           status, "API_ERROR")

\* fromStatus with the service-error case taken as the range 500..504
FromStatusRange(status) ==
    CASE status = 401 -> APIError("Invalid Companies House API key", status, "INVALID_API_KEY")
      [] status = 404 -> APIError("Resource not found", status, "NOT_FOUND")
      [] status = 429 -> APIError("Rate limit exceeded. Please try again later", status,
                                  "RATE_LIMIT_EXCEEDED")
      [] status \in 500..504 ->
             APIError("Companies House API service error", status, "SERVICE_ERROR")
      [] OTHER -> APIError("An error occurred while accessing the Companies House API",
                           status, "API_ERROR")

\* APIError.fromStatus(status)
FromStatus(status) ==
    CASE status = 401 -> APIError("Invalid Companies House API key", status, "INVALID_API_KEY")
      [] status = 404 -> APIError("Resource not found", status, "NOT_FOUND")
      [] status = 429 -> APIError("Rate limit exceeded. Please try again later", status,
                                  "RATE_LIMIT_EXCEEDED")
      [] status \in {500, 502, 503, 504} ->
             APIError("Companies House API service error", status, "SERVICE_ERROR")
      [] OTHER -> APIError("An error occurred while accessing the Companies House API",
                           status, "API_ERROR")

\* the statuses of a response whose ok is false (ok is status in 200..299)
NonOkStatuses == (100..199) \cup (300..599)

\* a response that is not ok has arrived, nothing else in use
ClassifyInit ==
    /\ now = 0
    /\ maxTokens = 1
    /\ refillInterval = 1
    /\ tokens = 1
    /\ lastRefill = 0
    /\ maxSize = 0
    /\ items = <<>>
    /\ calls = <<>>
    /\ started = 0
    /\ sent = 0
    /\ \E s \in NonOkStatuses : ret = [op |-> "response", status |-> s]
    /\ hist = <<>>
    /\ lastSet = <<>>

\* APIError.fromStatus(response.status)
Classify ==
    /\ ret.op = "response"
    /\ ret' = [op |-> "fromStatus", status |-> ret.status, error |-> FromStatus(ret.status)]
    /\ UNCHANGED <<now, limiterVars, cacheVars, clientVars, hist, lastSet>>

ClassifyNext == Classify

SpecClassify == ClassifyInit /\ [][ClassifyNext]_vars

(***************************************************************************)
(* CompaniesHouseClient                                                    *)
(***************************************************************************)
\* a call of one of the seven methods, with the defaults of its options filled in
Req(op, subject, category, limit, startIndex, activeOnly) ==
    [op |-> op, subject |-> subject, category |-> category, limit |-> limit,
     startIndex |-> startIndex, activeOnly |-> activeOnly]

Requests ==
    { Req("searchCompanies", "acme", "", 20, 0, TRUE),
      Req("searchCompanies", "", "", 20, 0, TRUE),
      Req("getCompanyProfile", "00000006", "", 0, 0, FALSE),
      Req("getCompanyOfficers", "00000006", "", 35, 0, TRUE),
      Req("getFilingHistory", "00000006", "", 25, 0, FALSE),
      Req("getCompanyCharges", "00000006", "", 25, 0, FALSE),
      Req("getPersonsWithSignificantControl", "00000006", "", 25, 0, FALSE),
      Req("searchOfficers", "smith", "", 35, 0, FALSE) }

\* `${b}` of a boolean
BoolString(b) == IF b THEN "true" ELSE "false"

\* the cacheKey template of each method
CacheKey(req) ==
    CASE req.op = "searchCompanies" ->
             "search:" \o req.subject \o ":" \o ToString(req.limit) \o ":"
                 \o BoolString(req.activeOnly)
      [] req.op = "getCompanyProfile" -> "profile:" \o req.subject
      [] req.op = "getCompanyOfficers" ->
             "officers:" \o req.subject \o ":" \o BoolString(req.activeOnly) \o ":"
                 \o ToString(req.limit)
      [] req.op = "getFilingHistory" ->
             "filings:" \o req.subject \o ":"
                 \o (IF req.category = "" THEN "all" ELSE req.category) \o ":"
                 \o ToString(req.limit) \o ":" \o ToString(req.startIndex)
      [] req.op = "getCompanyCharges" ->
             "charges:" \o req.subject \o ":" \o ToString(req.limit) \o ":"
                 \o ToString(req.startIndex)
      [] req.op = "getPersonsWithSignificantControl" ->
             "pscs:" \o req.subject \o ":" \o ToString(req.limit) \o ":"
                 \o ToString(req.startIndex)
      [] req.op = "searchOfficers" ->
             "officer-search:" \o req.subject \o ":" \o ToString(req.limit) \o ":"
                 \o ToString(req.startIndex)

\* the ttlSeconds each method passes to cache.set
TtlOf(req) ==
    CASE req.op = "searchCompanies" -> 5 * 60
      [] req.op = "getCompanyProfile" -> 30 * 60
      [] req.op = "getCompanyOfficers" -> 10 * 60
      [] req.op = "getFilingHistory" -> 2 * 60
      [] req.op = "getCompanyCharges" -> 30 * 60
      [] req.op = "getPersonsWithSignificantControl" -> 30 * 60
      [] req.op = "searchOfficers" -> 5 * 60

\* the refill interval the constructor gives the limiter
FiveMinutesMs == 5 * 60 * 1000
\* the step of the clock in a client run: half a refill interval
HalfWindowMs == FiveMinutesMs \div 2

\* searchCompanies: !query || query.trim() === ''
InvalidQuery(req) == req.op = "searchCompanies" /\ req.subject = ""

\* if (cached): the payloads the methods store are objects and arrays, which are truthy
Truthy(value) == value # Null

\* an Error that is none of the CompaniesHouseError classes
JsError(name, message) == [name |-> name, message |-> message, status |-> 0, code |-> ""]

\* a catch block that lets every error through as it is
MakeRequestCatchRethrows(error) == error

\* the catch block of makeRequest
MakeRequestCatch(error) ==
    IF IsAPIError(error)
    THEN error
    ELSE APIError("Network error: " \o error.message, 500, "NETWORK_ERROR")

\* the catch block of each method around makeRequest
MethodCatch(req, error) ==
    IF req.op = "searchCompanies"
    THEN IF IsCompaniesHouseError(error)
         THEN error
         ELSE APIError("Failed to search companies: " \o error.message, 500, "API_ERROR")
    ELSE IF IsAPIError(error)
         THEN error
         ELSE APIError("Failed to " \o req.op, 500, "API_ERROR")

\* how the request of an admitted call ends: fetch() rejects, or resolves with
\* a response that is not ok, or with an ok response whose json() throws or
\* gives an object with an array of items, without items, or with items that
\* are no array.  The statuses are one of each case of fromStatus and one of
\* its default.
Statuses == {401, 404, 418, 429, 500}
Bodies == {"unparseable", "items", "noitems", "badshape"}
Outcomes ==
    {[kind |-> "reject", status |-> 0, body |-> ""]}
        \cup {[kind |-> "response", status |-> st, body |-> ""] : st \in Statuses}
        \cup {[kind |-> "response", status |-> 200, body |-> b] : b \in Bodies}

\* response.ok
ResponseOk(status) == status \in 200..299

\* the payload a method makes of the parsed body of fetch number fetchNo
Payload(req, body, fetchNo) ==
    CASE req.op = "searchCompanies" ->
             IF body = "noitems"
             THEN [kind |-> "results", items |-> FALSE, of |-> 0]
             ELSE [kind |-> "results", items |-> TRUE, of |-> fetchNo]
      [] req.op = "getCompanyProfile" ->
             [kind |-> "profile", items |-> FALSE, of |-> fetchNo]
      [] OTHER -> [kind |-> "data", items |-> (body = "items"), of |-> fetchNo]

\* whether the method reaches its cache.set with that body
Caches(req, body) == ~(req.op = "searchCompanies" /\ body = "noitems")

Slots == 1..MaxInFlight

Idle == [pc |-> "idle"]

\* the record of a call that has returned or thrown
Returned(req, outcome, value, error, fetchNo, stored, peerStored) ==
    [op |-> "call", req |-> req, key |-> CacheKey(req), outcome |-> outcome,
     value |-> value, error |-> error, fetchNo |-> fetchNo, stored |-> stored,
     peerStored |-> peerStored]

\* new CompaniesHouseClient(apiKey, requestsPerFiveMinutes, cacheSize) at time 0
Init ==
    /\ now = 0
    /\ maxTokens = ClientRate
    /\ refillInterval = FiveMinutesMs
    /\ tokens = maxTokens
    /\ lastRefill = 0
    /\ maxSize = ClientCache
    /\ items = <<>>
    /\ calls = [c \in Slots |-> Idle]
    /\ started = 0
    /\ sent = 0
    /\ ret = NoRet
    /\ hist = <<>>
    /\ lastSet = <<>>

\* calls are interchangeable: a new call takes the lowest idle slot
FreeSlot(c) == calls[c].pc = "idle" /\ \A d \in Slots : d < c => calls[d].pc # "idle"

\* The steps of a call.  A call runs from its invocation to its first await
\* without interruption: the cache lookup and, on a miss, the whole of
\* checkLimit().  What follows up to the settling of fetch() touches neither
\* the limiter nor the cache (the RateLimitError passing through the catch
\* blocks, or the call of fetch()), so it is part of the same step.  What
\* follows the settling of fetch() up to the return (response.json(), the
\* method's own processing, cache.set) is the second step.

\* a method that asks the limiter before it looks in the cache
StartLimitFirst(c, req) ==
    /\ started < MaxInvocations
    /\ FreeSlot(c)
    /\ started' = started + 1
    /\ IF InvalidQuery(req)
       THEN /\ ret' = Returned(req, "invalid", Null,
                               ValidationError("Search query cannot be empty"), 0, FALSE, FALSE)
            /\ UNCHANGED <<items, tokens, lastRefill, calls, sent>>
       ELSE LET l == CheckLimit(tokens, lastRefill, now, maxTokens, refillInterval)
                g == CacheGet(items, CacheKey(req), now)
            IN  /\ tokens' = l.tokens
                /\ lastRefill' = l.lastRefill
                /\ items' = g.items
                /\ IF ~l.ok
                   THEN /\ ret' = Returned(req, "rejected", Null,
                                   MethodCatch(req, MakeRequestCatch(
                                       RateLimitError(RateLimitMessage(l.waitTimeMs)))),
                                   0, FALSE, FALSE)
                        /\ UNCHANGED <<calls, sent>>
                   ELSE IF Truthy(g.value)
                   THEN /\ ret' = Returned(req, "hit", g.value, NoError, 0, FALSE, FALSE)
                        /\ UNCHANGED <<calls, sent>>
                   ELSE /\ sent' = sent + 1
                        /\ calls' = [calls EXCEPT ![c] =
                                       [pc |-> "fetch", req |-> req,
                                        fetchNo |-> sent + 1, peerStored |-> FALSE]]
                        /\ ret' = NoRet
    /\ UNCHANGED <<now, maxTokens, refillInterval, maxSize, hist, lastSet>>

\* a method is called
Start(c, req) ==
    /\ started < MaxInvocations
    /\ FreeSlot(c)
    /\ started' = started + 1
    /\ IF InvalidQuery(req)
       THEN /\ ret' = Returned(req, "invalid", Null,
                               ValidationError("Search query cannot be empty"), 0, FALSE, FALSE)
            /\ UNCHANGED <<items, tokens, lastRefill, calls, sent>>
       ELSE LET g == CacheGet(items, CacheKey(req), now)
            IN  /\ items' = g.items
                /\ IF Truthy(g.value)
                   THEN /\ ret' = Returned(req, "hit", g.value, NoError, 0, FALSE, FALSE)
                        /\ UNCHANGED <<tokens, lastRefill, calls, sent>>
                   ELSE LET l == CheckLimit(tokens, lastRefill, now, maxTokens, refillInterval)
                        IN  /\ tokens' = l.tokens
                            /\ lastRefill' = l.lastRefill
                            /\ IF l.ok
                               THEN /\ sent' = sent + 1
                                    /\ calls' = [calls EXCEPT ![c] =
                                                   [pc |-> "fetch", req |-> req,
                                                    fetchNo |-> sent + 1, peerStored |-> FALSE]]
                                    /\ ret' = NoRet
                               ELSE /\ ret' = Returned(req, "rejected", Null,
                                               MethodCatch(req, MakeRequestCatch(
                                                   RateLimitError(RateLimitMessage(l.waitTimeMs)))),
                                               0, FALSE, FALSE)
                                    /\ UNCHANGED <<calls, sent>>
    /\ UNCHANGED <<now, maxTokens, refillInterval, maxSize, hist, lastSet>>

\* the error a failed request ends in, before the catch blocks
RequestError(outcome) ==
    IF outcome.kind = "reject" THEN JsError("TypeError", "fetch failed")
    ELSE IF ~ResponseOk(outcome.status) THEN FromStatus(outcome.status)
    ELSE JsError("SyntaxError", "Unexpected token")

\* the method's own processing of a parsed body throws: searchCompanies calls
\* data.items.filter, which an items that is no array does not have
NormalizeThrows(req, outcome) ==
    /\ outcome.kind = "response" /\ ResponseOk(outcome.status)
    /\ req.op = "searchCompanies" /\ outcome.body = "badshape"

\* the call ends with an error
Fails(req, outcome) ==
    \/ outcome.kind = "reject"
    \/ ~ResponseOk(outcome.status)
    \/ outcome.body = "unparseable"
    \/ NormalizeThrows(req, outcome)

\* which statement threw
FailureKind(req, outcome) ==
    IF outcome.kind = "reject" THEN "transport"
    ELSE IF ~ResponseOk(outcome.status) THEN "status"
    ELSE IF outcome.body = "unparseable" THEN "parse"
    ELSE "normalize"

\* the error the caller gets: what makeRequest threw goes through both catch
\* blocks, what the method's own processing threw through the method's only
Thrown(req, outcome) ==
    IF NormalizeThrows(req, outcome)
    THEN MethodCatch(req, JsError("TypeError", "data.items.filter is not a function"))
    ELSE MethodCatch(req, MakeRequestCatch(RequestError(outcome)))

\* the call whose request failed stores the error as its payload
SettleCachingFailures(c, outcome) ==
    /\ calls[c].pc = "fetch"
    /\ LET req == calls[c].req
           key == CacheKey(req)
           value == Payload(req, outcome.body, calls[c].fetchNo)
           failed == Fails(req, outcome)
       IN  IF failed
           THEN /\ ret' = Returned(req, FailureKind(req, outcome), Null,
                           Thrown(req, outcome),
                           calls[c].fetchNo, FALSE, calls[c].peerStored)
                /\ calls' = [calls EXCEPT ![c] = Idle]
                /\ items' = CacheSet(items, key, [kind |-> "error"], TtlOf(req), now, maxSize)
           ELSE /\ items' = IF Caches(req, outcome.body)
                            THEN CacheSet(items, key, value, TtlOf(req), now, maxSize)
                            ELSE items
                /\ ret' = Returned(req, "ok", value, NoError, calls[c].fetchNo,
                           HasKey(items', key) /\ items'[IndexOf(items', key)].value = value,
                           calls[c].peerStored)
                /\ calls' = [d \in Slots |->
                               IF d = c THEN Idle
                               ELSE IF calls[d].pc # "idle" /\ CacheKey(calls[d].req) = key
                                       /\ Caches(req, outcome.body)
                                    THEN [calls[d] EXCEPT !.peerStored = TRUE]
                                    ELSE calls[d]]
    /\ UNCHANGED <<now, limiterVars, maxSize, started, sent, hist, lastSet>>

\* a call whose request failed issues the request once more
SettleRetrying(c, outcome) ==
    /\ calls[c].pc = "fetch"
    /\ LET req == calls[c].req
           key == CacheKey(req)
           value == Payload(req, outcome.body, calls[c].fetchNo)
           failed == Fails(req, outcome)
       IN  IF failed /\ sent <= started
           THEN /\ sent' = sent + 1
                /\ calls' = [calls EXCEPT ![c].fetchNo = sent + 1]
                /\ ret' = NoRet
                /\ UNCHANGED items
           ELSE IF failed
           THEN /\ ret' = Returned(req, FailureKind(req, outcome), Null,
                           Thrown(req, outcome),
                           calls[c].fetchNo, FALSE, calls[c].peerStored)
                /\ calls' = [calls EXCEPT ![c] = Idle]
                /\ UNCHANGED <<items, sent>>
           ELSE /\ items' = IF Caches(req, outcome.body)
                            THEN CacheSet(items, key, value, TtlOf(req), now, maxSize)
                            ELSE items
                /\ ret' = Returned(req, "ok", value, NoError, calls[c].fetchNo,
                           HasKey(items', key) /\ items'[IndexOf(items', key)].value = value,
                           calls[c].peerStored)
                /\ calls' = [d \in Slots |->
                               IF d = c THEN Idle
                               ELSE IF calls[d].pc # "idle" /\ CacheKey(calls[d].req) = key
                                       /\ Caches(req, outcome.body)
                                    THEN [calls[d] EXCEPT !.peerStored = TRUE]
                                    ELSE calls[d]]
                /\ UNCHANGED sent
    /\ UNCHANGED <<now, limiterVars, maxSize, started, hist, lastSet>>

\* a call whose request failed gives its token back to the limiter
SettleRefunding(c, outcome) ==
    /\ calls[c].pc = "fetch"
    /\ LET req == calls[c].req
           key == CacheKey(req)
           value == Payload(req, outcome.body, calls[c].fetchNo)
           failed == Fails(req, outcome)
       IN  IF failed
           THEN /\ ret' = Returned(req, FailureKind(req, outcome), Null,
                           Thrown(req, outcome),
                           calls[c].fetchNo, FALSE, calls[c].peerStored)
                /\ calls' = [calls EXCEPT ![c] = Idle]
                /\ tokens' = Min(maxTokens, tokens + TokensPerRequest)
                /\ UNCHANGED items
           ELSE /\ items' = IF Caches(req, outcome.body)
                            THEN CacheSet(items, key, value, TtlOf(req), now, maxSize)
                            ELSE items
                /\ ret' = Returned(req, "ok", value, NoError, calls[c].fetchNo,
                           HasKey(items', key) /\ items'[IndexOf(items', key)].value = value,
                           calls[c].peerStored)
                /\ calls' = [d \in Slots |->
                               IF d = c THEN Idle
                               ELSE IF calls[d].pc # "idle" /\ CacheKey(calls[d].req) = key
                                       /\ Caches(req, outcome.body)
                                    THEN [calls[d] EXCEPT !.peerStored = TRUE]
                                    ELSE calls[d]]
                /\ UNCHANGED tokens
    /\ UNCHANGED <<now, maxTokens, refillInterval, lastRefill, maxSize, started, sent, hist,
                   lastSet>>

\* fetch() settles and the call runs to its end: a rejection, a response that
\* is not ok or a body that does not parse goes through the two catch blocks;
\* a parsed body is made into the method's payload, stored and returned
Settle(c, outcome) ==
    /\ calls[c].pc = "fetch"
    /\ LET req == calls[c].req
           key == CacheKey(req)
           value == Payload(req, outcome.body, calls[c].fetchNo)
           failed == Fails(req, outcome)
       IN  IF failed
           THEN /\ ret' = Returned(req, FailureKind(req, outcome), Null,
                           Thrown(req, outcome),
                           calls[c].fetchNo, FALSE, calls[c].peerStored)
                /\ calls' = [calls EXCEPT ![c] = Idle]
                /\ UNCHANGED items
           ELSE /\ items' = IF Caches(req, outcome.body)
                            THEN CacheSet(items, key, value, TtlOf(req), now, maxSize)
                            ELSE items
                /\ ret' = Returned(req, "ok", value, NoError, calls[c].fetchNo,
                           HasKey(items', key) /\ items'[IndexOf(items', key)].value = value,
                           calls[c].peerStored)
                /\ calls' = [d \in Slots |->
                               IF d = c THEN Idle
                               ELSE IF calls[d].pc # "idle" /\ CacheKey(calls[d].req) = key
                                       /\ Caches(req, outcome.body)
                                    THEN [calls[d] EXCEPT !.peerStored = TRUE]
                                    ELSE calls[d]]
    /\ UNCHANGED <<now, limiterVars, maxSize, started, sent, hist, lastSet>>

\* two and a half minutes pass
Tick ==
    /\ now < MaxClientTicks * HalfWindowMs
    /\ now' = now + HalfWindowMs
    /\ ret' = NoRet
    /\ UNCHANGED <<limiterVars, cacheVars, clientVars, hist, lastSet>>

Next ==
    \/ \E c \in Slots, req \in Requests : Start(c, req)
    \/ \E c \in Slots, outcome \in Outcomes : Settle(c, outcome)
    \/ Tick

Spec == Init /\ [][Next]_vars

(***************************************************************************)
(* Claims about the limiter, checked under SpecLimiter.                    *)
(***************************************************************************)

\* C1: for every sequence of checkLimit calls at non-decreasing times, with any
\* capacity >= 1 and any refill window, the token count is within 0..maxTokens
\* in every reachable state, after the refill as well as after the decrement.
C1_TokensWithinCapacity ==
    /\ 0 <= tokens /\ tokens <= maxTokens
    /\ LET r == RefillTokens(tokens, lastRefill, now, maxTokens, refillInterval)
       IN  0 <= r.tokens /\ r.tokens <= maxTokens

\* a bucket that was emptied, refilled in part and drawn from again
C1_Witness ==
    /\ \E i, j \in 1..Len(hist) : i < j /\ ~hist[i].ok /\ hist[j].ok
    /\ lastRefill > 0
    /\ tokens < maxTokens

\* calls i .. i + maxTokens - 1 start from a full bucket and are made at one instant
BurstFrom(i) ==
    /\ i + maxTokens - 1 <= Len(hist)
    /\ hist[i].before = maxTokens
    /\ \A j \in i..(i + maxTokens - 1) : hist[j].at = hist[i].at

\* C4: from a full bucket, maxTokens consecutive checkLimit calls with no elapsed
\* time succeed and the next one is rejected; after a wait of refillInterval /
\* maxTokens ms exactly one more call succeeds, and the one after it, with no
\* further elapsed time, is rejected.
C4_BurstThenOnePerSlice ==
    \A i \in 1..Len(hist) :
        BurstFrom(i) =>
            LET n == i + maxTokens
                t == hist[i].at
            IN  /\ \A j \in i..(n - 1) : hist[j].ok
                /\ (n <= Len(hist) /\ hist[n].at = t) =>
                       /\ ~hist[n].ok
                       /\ (n + 1 <= Len(hist) /\ (hist[n + 1].at - t) * maxTokens = refillInterval) =>
                              /\ hist[n + 1].ok
                              /\ (n + 2 <= Len(hist) /\ hist[n + 2].at = hist[n + 1].at) =>
                                     ~hist[n + 2].ok

\* the whole scenario has run: burst, rejection, wait of one slice, one success, rejection
C4_Witness ==
    \E i \in 1..Len(hist) :
        /\ BurstFrom(i)
        /\ maxTokens >= 2
        /\ i + maxTokens + 2 <= Len(hist)
        /\ hist[i + maxTokens].at = hist[i].at
        /\ (hist[i + maxTokens + 1].at - hist[i].at) * maxTokens = refillInterval
        /\ hist[i + maxTokens + 2].at = hist[i + maxTokens + 1].at
        /\ ~hist[i + maxTokens].ok /\ hist[i + maxTokens + 1].ok /\ ~hist[i + maxTokens + 2].ok

(***************************************************************************)
(* Claims about the cache, checked under SpecCache.                        *)
(***************************************************************************)

\* C5: after set(key, v, ttl), with no later set, eviction, delete or clear of
\* that key, a get(key) less than ttl seconds after the set returns v and a
\* get(key) more than ttl seconds after the set returns null.
C5_GetWithinTtlThenAbsent ==
    (ret.op = "get" /\ ret.set.kind = "set") =>
        LET age == ret.at - ret.set.at
            ttlMs == ret.set.ttlSeconds * 1000
        IN  /\ age < ttlMs => ret.value = ret.set.value
            /\ age > ttlMs => ret.value = Null

\* a get that came too late, after one that came in time
C5_Witness ==
    /\ ret.op = "get" /\ ret.set.kind = "set"
    /\ ret.at - ret.set.at > ret.set.ttlSeconds * 1000
    /\ ret.value = Null
    /\ \E i \in 1..Len(hist) : hist[i].op = "get" /\ hist[i].key = ret.key /\ hist[i].sizeBefore > 0
                                /\ i < Len(hist)

\* the calls made so far are maxSize + 1 sets of distinct keys on an empty cache
FilledByOneMore ==
    /\ maxSize >= 1
    /\ Len(hist) = maxSize + 1
    /\ hist[1].sizeBefore = 0
    /\ \A i \in 1..Len(hist) : hist[i].op = "set"
    /\ \A i, j \in 1..Len(hist) : i # j => hist[i].key # hist[j].key

\* C6: on a cache with maxSize >= 1, inserting maxSize + 1 distinct keys with no
\* reads in between evicts exactly one key, the first inserted; every other
\* inserted key is still held and, until it expires, returned by get.
C6_OverflowEvictsFirstInserted ==
    FilledByOneMore =>
        /\ KeysOf(items) = {hist[i].key : i \in 2..Len(hist)}
        /\ CacheSize(items) = maxSize
        /\ CacheGet(items, hist[1].key, now).value = Null
        /\ \A i \in 2..Len(hist) :
              LET k == hist[i].key
              IN  lastSet[k].at + lastSet[k].ttlSeconds * 1000 >= now =>
                     CacheGet(items, k, now).value = lastSet[k].value

\* a cache of capacity two or more just overflowed, nothing expired yet
C6_Witness ==
    /\ FilledByOneMore
    /\ maxSize >= 2
    /\ \A k \in KeysOf(items) : CacheGet(items, k, now).value # Null

(***************************************************************************)
(* Claims about the classification of a status, checked under SpecClassify.*)
(***************************************************************************)

\* C9: the classification of a non-2xx status is total: 401 gives the
\* authentication kind, 404 the not-found kind, 429 the rate-limit kind, each of
\* 500, 502, 503 and 504 the service-error kind and every other status the
\* generic API-error kind; the error always carries the status it was made from.
C9_StatusClassification ==
    ret.op = "fromStatus" =>
        /\ ret.error.name = "APIError"
        /\ ret.error.status = ret.status
        /\ ret.status = 401 => ret.error.code = "INVALID_API_KEY"
        /\ ret.status = 404 => ret.error.code = "NOT_FOUND"
        /\ ret.status = 429 => ret.error.code = "RATE_LIMIT_EXCEEDED"
        /\ ret.status \in {500, 502, 503, 504} => ret.error.code = "SERVICE_ERROR"
        /\ ret.status \notin {401, 404, 429, 500, 502, 503, 504} =>
               ret.error.code = "API_ERROR"

\* a gateway timeout was classified
C9_Witness ==
    ret.op = "fromStatus" /\ ret.status = 504 /\ ret.error.code = "SERVICE_ERROR"

\* C10 as claimed: every status in 500..504 classifies to the service-error kind.
C10_Original ==
    (ret.op = "fromStatus" /\ ret.status \in 500..504) => ret.error.code = "SERVICE_ERROR"

\* C10 as amended: of the statuses 500..504, the four statuses 500, 502, 503 and
\* 504 classify to the service-error kind and 501 classifies to the generic
\* API-error kind, with status 501 kept.
C10_ServiceErrorsExcept501 ==
    (ret.op = "fromStatus" /\ ret.status \in 500..504) =>
        IF ret.status = 501
        THEN ret.error.code = "API_ERROR" /\ ret.error.status = 501
        ELSE ret.error.code = "SERVICE_ERROR"

\* a 501 was classified
C10_Witness ==
    ret.op = "fromStatus" /\ ret.status = 501 /\ ret.error.code = "API_ERROR"

\* ---------------------------------------------------------------------------
\* Gateway calls

\* the step is the invocation of a method with request req
Invoked(req) ==
    /\ started' = started + 1
    /\ \/ ret'.op = "call" /\ ret'.req = req
       \/ \E c \in Slots : calls[c].pc = "idle" /\ calls'[c].pc = "fetch" /\ calls'[c].req = req

\* the cache holds an entry for key that has not expired
FreshEntry(key) ==
    \E i \in 1..Len(items) : items[i].key = key /\ items[i].expiresAt >= now

\* the value of the entry for key
EntryValue(key) == (CHOOSE e \in {items[i] : i \in 1..Len(items)} : e.key = key).value

C3_RejectionSurfacesRateLimitError ==
    ret.op = "call" /\ ret.outcome = "rejected"
        => ret.error.name = "RateLimitError" /\ ret.error.code = "RATE_LIMIT_EXCEEDED"

\* what the caller gets instead: the APIError of a network failure
C3_Witness ==
    /\ ret.op = "call" /\ ret.outcome = "rejected"
    /\ ret.error.name = "APIError" /\ ret.error.code = "NETWORK_ERROR"
    /\ ret.error.status = 500
    /\ sent = 1 /\ started = 2

C8_ReturnedPayloadIsCached ==
    ret.op = "call" /\ ret.outcome = "ok" => ret.stored

\* a search whose response has no items returns the empty list and stores
\* nothing
C8_Witness ==
    /\ ret.op = "call" /\ ret.outcome = "ok" /\ ~ret.stored
    /\ ret.req.op = "searchCompanies"
    /\ ~HasKey(items, ret.key)

\* the calls in flight
InFlight == {c \in Slots : calls[c].pc # "idle"}

\* the outcomes of a call that ended with the error of a failed request
FailedOutcomes == {"transport", "status", "parse"}

C12_FailedRequestIsRetried ==
    ret.op = "call" /\ ret.outcome \in FailedOutcomes /\ started = 1 => sent > 1

\* a single call was refused by the upstream with 429 and ended at once, after
\* its only request
C12_Witness ==
    /\ ret.op = "call" /\ ret.outcome = "status" /\ ret.error.status = 429
    /\ started = 1 /\ sent = 1 /\ now = 0

(***************************************************************************)
(* CompaniesHouseMCPServer: the tools and the clients they call.  In a     *)
(* server run tokens, lastRefill and items hold one value per client.      *)
(***************************************************************************)
\* the name of the tool that calls each method of the client
ToolName(req) ==
    CASE req.op = "searchCompanies" -> "search_companies"
      [] req.op = "getCompanyProfile" -> "get_company_profile"
      [] req.op = "getCompanyOfficers" -> "get_company_officers"
      [] req.op = "getFilingHistory" -> "get_filing_history"
      [] req.op = "getCompanyCharges" -> "get_company_charges"
      [] req.op = "getPersonsWithSignificantControl" ->
             "get_persons_with_significant_control"
      [] req.op = "searchOfficers" -> "search_officers"

\* the clients of a server: the one its constructor makes and hands to six
\* tools, and the one SearchCompaniesTool makes for itself from the API key
Clients == {"server", "searchTool"}

ClientOf(req) == IF ToolName(req) = "search_companies" THEN "searchTool" ELSE "server"

ServerInit ==
    /\ now = 0
    /\ maxTokens = ClientRate
    /\ refillInterval = FiveMinutesMs
    /\ tokens = [cl \in Clients |-> maxTokens]
    /\ lastRefill = [cl \in Clients |-> now]
    /\ maxSize = ClientCache
    /\ items = [cl \in Clients |-> <<>>]
    /\ calls = [c \in Slots |-> Idle]
    /\ started = 0
    /\ sent = 0
    /\ ret = NoRet
    /\ hist = <<>>
    /\ lastSet = <<>>

\* a tool is called: its execute() calls the method of its client
ToolStart(c, req) ==
    /\ started < MaxInvocations
    /\ FreeSlot(c)
    /\ started' = started + 1
    /\ LET cl == ClientOf(req)
       IN  IF InvalidQuery(req)
           THEN /\ ret' = Returned(req, "invalid", Null,
                               ValidationError("Search query cannot be empty"), 0, FALSE, FALSE)
                /\ UNCHANGED <<items, tokens, lastRefill, calls, sent>>
           ELSE LET g == CacheGet(items[cl], CacheKey(req), now)
                IN  /\ items' = [items EXCEPT ![cl] = g.items]
                    /\ IF Truthy(g.value)
                       THEN /\ ret' = Returned(req, "hit", g.value, NoError, 0, FALSE, FALSE)
                            /\ UNCHANGED <<tokens, lastRefill, calls, sent>>
                       ELSE LET l == CheckLimit(tokens[cl], lastRefill[cl], now,
                                                maxTokens, refillInterval)
                            IN  /\ tokens' = [tokens EXCEPT ![cl] = l.tokens]
                                /\ lastRefill' = [lastRefill EXCEPT ![cl] = l.lastRefill]
                                /\ IF l.ok
                                   THEN /\ sent' = sent + 1
                                        /\ calls' = [calls EXCEPT ![c] =
                                                       [pc |-> "fetch", req |-> req,
                                                        fetchNo |-> sent + 1,
                                                        peerStored |-> FALSE]]
                                        /\ ret' = NoRet
                                   ELSE /\ ret' = Returned(req, "rejected", Null,
                                                   MethodCatch(req, MakeRequestCatch(
                                                       RateLimitError(
                                                           RateLimitMessage(l.waitTimeMs)))),
                                                   0, FALSE, FALSE)
                                        /\ UNCHANGED <<calls, sent>>
    /\ UNCHANGED <<now, maxTokens, refillInterval, maxSize, hist, lastSet>>

\* fetch() settles and the method of the client runs to its end
ToolSettle(c, outcome) ==
    /\ calls[c].pc = "fetch"
    /\ LET req == calls[c].req
           cl == ClientOf(req)
           key == CacheKey(req)
           value == Payload(req, outcome.body, calls[c].fetchNo)
           failed == Fails(req, outcome)
       IN  IF failed
           THEN /\ ret' = Returned(req, FailureKind(req, outcome), Null,
                           Thrown(req, outcome),
                           calls[c].fetchNo, FALSE, calls[c].peerStored)
                /\ calls' = [calls EXCEPT ![c] = Idle]
                /\ UNCHANGED items
           ELSE /\ items' = IF Caches(req, outcome.body)
                            THEN [items EXCEPT ![cl] =
                                     CacheSet(items[cl], key, value, TtlOf(req), now, maxSize)]
                            ELSE items
                /\ ret' = Returned(req, "ok", value, NoError, calls[c].fetchNo,
                           HasKey(items'[cl], key)
                               /\ items'[cl][IndexOf(items'[cl], key)].value = value,
                           calls[c].peerStored)
                /\ calls' = [d \in Slots |->
                               IF d = c THEN Idle
                               ELSE IF calls[d].pc # "idle" /\ CacheKey(calls[d].req) = key
                                       /\ Caches(req, outcome.body)
                                    THEN [calls[d] EXCEPT !.peerStored = TRUE]
                                    ELSE calls[d]]
    /\ UNCHANGED <<now, limiterVars, maxSize, started, sent, hist, lastSet>>

ServerTick ==
    /\ now < MaxClientTicks * HalfWindowMs
    /\ now' = now + HalfWindowMs
    /\ ret' = NoRet
    /\ UNCHANGED <<limiterVars, cacheVars, clientVars, hist, lastSet>>

ServerNext ==
    \/ \E c \in Slots, req \in Requests : ToolStart(c, req)
    \/ \E c \in Slots, outcome \in Outcomes : ToolSettle(c, outcome)
    \/ ServerTick

SpecServer == ServerInit /\ [][ServerNext]_vars

\* C13: with no time elapsed since the server was made, the requests sent
\* upstream by all its tools together never outnumber the configured capacity.
C13_OneSharedBudget == now = 0 => sent <= maxTokens

\* both a search_companies call and a call of another tool were admitted at
\* the same instant by a server whose capacity is ClientRate
C13_Witness ==
    /\ now = 0 /\ sent = 2 * maxTokens
    /\ \A cl \in Clients : tokens[cl] = 0

\* C14: a get that removes nothing leaves the key that the next eviction
\* takes, the first key of the map, as it was.
C14_GetKeepsEvictionOrder ==
    [][started' = started + 1 /\ ret'.op = "get" /\ Len(items) > 0
           /\ Len(items') = Len(items)
           => items'[1].key = items[1].key]_vars

\* k1 and k2 were set in that order, k1 was read, and now k2 is the first key
\* of the map and k1 the last
C14_Witness ==
    /\ Len(hist) = 3 /\ hist[1].op = "set" /\ hist[2].op = "set" /\ hist[3].op = "get"
    /\ hist[1].key # hist[2].key /\ hist[3].key = hist[1].key
    /\ ret.op = "get" /\ ret.value # Null
    /\ Len(items) = 2 /\ items[1].key = hist[2].key /\ items[2].key = hist[1].key

\* C15: after any calls of set, get, delete and clear the cache holds at most
\* maxSize entries, whatever maxSize it was made with.
C15_SizeAtMostMaxSize == CacheSize(items) <= maxSize

\* a cache made with maxSize 0 holds an entry after a set
C15_Witness ==
    /\ maxSize = 0 /\ CacheSize(items) = 1
    /\ Len(hist) > 0 /\ hist[Len(hist)].op = "set" /\ hist[Len(hist)].sizeBefore = 0

\* A client run in which time keeps passing.  Nothing else is required to
\* happen: callers need not call, and the code sets no timer and passes no
\* signal to fetch() that would make it settle when the upstream is silent.
SpecLive == Spec /\ WF_vars(Tick)

\* C16: every call that is waiting for the upstream returns in the end.
C16_EveryCallReturns ==
    \A c \in Slots : (calls[c].pc = "fetch") ~> (calls[c].pc = "idle")

\* a call still waiting for the upstream when the clock of the run has
\* reached its last value
C16_Witness ==
    /\ calls[1].pc = "fetch" /\ calls[1].fetchNo = 1
    /\ now = MaxClientTicks * HalfWindowMs

C18_TransportFailureHasNoStatus ==
    ret.op = "call" /\ ret.outcome = "transport"
        => ret.error.code = "NETWORK_ERROR" /\ ret.error.status \notin 100..599

\* the error of a rejected fetch() carries the status 500, as the error of an
\* upstream 500 does, and differs from it in code
C18_Witness ==
    /\ ret.op = "call" /\ ret.outcome = "transport"
    /\ ret.error.code = "NETWORK_ERROR" /\ ret.error.status = 500
    /\ FromStatus(500).status = ret.error.status
    /\ FromStatus(500).code # ret.error.code

\* C19: a call whose 2xx response has a body that does not parse fails with
\* the generic API error code, not the network one, and stores nothing.
C19_UnparseableBodyIsApiError ==
    ret.op = "call" /\ ret.outcome = "parse"
        => /\ ret.error.code = "API_ERROR"
           /\ ~ret.peerStored => ~HasKey(items, ret.key)

\* the call failed on response.json() with the error of a network failure;
\* nothing is stored under its key
C19_Witness ==
    /\ ret.op = "call" /\ ret.outcome = "parse"
    /\ ret.error.name = "APIError" /\ ret.error.code = "NETWORK_ERROR"
    /\ ret.error.status = 500
    /\ ~HasKey(items, ret.key)

\* the outcomes of a call that ended with an error after its input was accepted
ErrorOutcomes == {"rejected", "transport", "status", "parse", "normalize"}

\* the codes of the error kinds: network, authentication, not found, rate
\* limit, service, and the generic API error
TaxonomyCodes ==
    {"NETWORK_ERROR", "INVALID_API_KEY", "NOT_FOUND", "RATE_LIMIT_EXCEEDED",
     "SERVICE_ERROR", "API_ERROR"}

MaxRetryNow == 700      \* the clock of such a run stops here (ms)

\* <<maxTokens, refillInterval>>
RetryConfigs == {<<2, 1000>>, <<5, 1000>>, <<1, 161>>, <<1, 103>>}
PauseMs == {100, 250}

RetryInit ==
    /\ now = 0
    /\ \E cfg \in RetryConfigs : maxTokens = cfg[1] /\ refillInterval = cfg[2]
    /\ tokens = maxTokens
    /\ lastRefill = 0
    /\ maxSize = 0
    /\ items = <<>>
    /\ calls = <<>>
    /\ started = 0
    /\ sent = 0
    /\ ret = NoRet
    /\ hist = <<>>
    /\ lastSet = <<>>

\* the caller of a rejected checkLimit waits the time the message names
RetryWait ==
    /\ ret.op = "checkLimit" /\ ~ret.ok
    /\ now + ret.waitTimeMs <= MaxRetryNow
    /\ now' = now + ret.waitTimeMs
    /\ UNCHANGED <<limiterVars, cacheVars, clientVars, ret, hist, lastSet>>

\* time passes without a call
RetryPause(d) ==
    /\ now + d <= MaxRetryNow
    /\ now' = now + d
    /\ UNCHANGED <<limiterVars, cacheVars, clientVars, ret, hist, lastSet>>

RetryNext ==
    \/ LimiterCheck
    \/ RetryWait
    \/ \E d \in PauseMs : RetryPause(d)

SpecRetry == RetryInit /\ [][RetryNext]_vars

\* the scenario of maxTokens 2 and refillInterval 1000: two admissions and a
\* rejection with 500 ms at time 0, an admission at 500 ms
C21_ScenarioHolds ==
    (/\ maxTokens = 2 /\ refillInterval = 1000
     /\ Len(hist) >= 3 /\ hist[3].at = 0) =>
        /\ hist[1].ok /\ hist[2].ok /\ ~hist[3].ok
        /\ Len(hist) = 3 => ret.waitTimeMs = 500
        /\ (Len(hist) >= 4 /\ hist[4].at = 500) => hist[4].ok

\* C21: a rejected checkLimit reports max(100, ceil((1 - available) *
\* refillInterval / maxTokens)) ms, available being the tokens after the refill;
\* with maxTokens 2 and refillInterval 1000 a third check at time 0 is rejected
\* with a wait of 500 ms and a check at 500 ms succeeds.
C21_WaitIsCeilOfMissingOverRate ==
    /\ (ret.op = "checkLimit" /\ ~ret.ok) =>
           ret.waitTimeMs = Max(MinWaitMs, CeilDiv((1 - tokens) * refillInterval, maxTokens))
    /\ C21_ScenarioHolds

\* the scenario has run
C21_Witness ==
    /\ maxTokens = 2 /\ refillInterval = 1000
    /\ Len(hist) = 4
    /\ hist[3].at = 0 /\ ~hist[3].ok
    /\ hist[4].at = 500 /\ hist[4].ok

\* The continuous bucket of the design after the first k checkLimit calls of
\* hist: available is held as available * refillInterval, a whole number.  Each
\* call adds elapsed * maxTokens / refillInterval up to the capacity, sets
\* lastRefillAt to the time of the call and admits iff available >= 1.
RECURSIVE ReferenceBucket(_)
ReferenceBucket(k) ==
    IF k = 0
    THEN [available |-> maxTokens * refillInterval, lastRefillAt |-> 0, ok |-> TRUE]
    ELSE LET prev == ReferenceBucket(k - 1)
             elapsed == hist[k].at - prev.lastRefillAt
             filled == Min(maxTokens * refillInterval, prev.available + elapsed * maxTokens)
         IN  [available |-> IF filled >= refillInterval THEN filled - refillInterval ELSE filled,
              lastRefillAt |-> hist[k].at,
              ok |-> filled >= refillInterval]

\* C22: for every sequence of checkLimit call times each call is admitted or
\* rejected as the continuous bucket of the design admits or rejects it; no
\* fraction of a refill is lost between calls.
C22_OutcomesOfContinuousBucket ==
    \A k \in 1..Len(hist) : hist[k].ok = ReferenceBucket(k).ok

\* a call was admitted on a refill that left a fraction of a token over, and
\* another call followed it
C22_Witness ==
    \E k \in 2..Len(hist) :
        /\ k < Len(hist)
        /\ hist[k].ok /\ hist[k].before = 0
        /\ ((hist[k].at - hist[k - 1].at) * maxTokens) % refillInterval # 0

\* C23: a rejected checkLimit leaves tokens and lastRefill as they were before
\* the call; a call that resolves takes exactly one token from what the refill
\* of that call made available: without a refill tokens falls by one, with a
\* refill lastRefill is the time of the call and tokens does not fall, unless
\* the capacity cut the refill.
C23_RejectionLeavesLimiterUnchanged ==
    [][hist' # hist =>
          IF ret'.ok
          THEN /\ lastRefill' = lastRefill => tokens' = tokens - 1
               /\ lastRefill' # lastRefill =>
                      /\ lastRefill' = now
                      /\ tokens' >= Min(maxTokens - 1, tokens) /\ tokens' < maxTokens
          ELSE tokens' = tokens /\ lastRefill' = lastRefill]_vars

\* a call was rejected some time after the last refill
C23_Witness ==
    /\ ret.op = "checkLimit" /\ ~ret.ok
    /\ Len(hist) > 0 /\ hist[Len(hist)].at = now
    /\ now > lastRefill

\* C23 as stated: a call that resolves changes tokens by exactly minus one
C23_SuccessIsMinusOne ==
    [][hist' # hist =>
          IF ret'.ok
          THEN tokens' = tokens - 1
          ELSE tokens' = tokens /\ lastRefill' = lastRefill]_vars

\* C28: when checkLimit is rejected at time t with a reported wait of w ms and
\* no checkLimit is called in between, a checkLimit at any time >= t + w resolves.
C28_WaitingAsToldIsEnough ==
    [][(/\ hist' # hist
        /\ ret.op = "checkLimit" /\ ~ret.ok
        /\ now >= hist[Len(hist)].at + ret.waitTimeMs) => ret'.ok]_vars

\* a call was made after a rejection, later than the wait it named
C28_Witness ==
    \E k \in 2..Len(hist) :
        /\ ~hist[k - 1].ok
        /\ hist[k].at >= hist[k - 1].at + Max(MinWaitMs, CeilDiv(refillInterval, maxTokens)) + 1

\* C24: set removes a key only when the cache is at capacity and the key being
\* set is new; a set of a key already held removes no other key, so the keys
\* held and size() are the same before and after, also when the cache is full.
C24_SetOfHeldKeyEvictsNothing ==
    [][started' = started + 1 /\ ret'.op = "set" =>
          /\ KeysOf(items) \ KeysOf(items') # {} =>
                 CacheSize(items) >= maxSize /\ ~HasKey(items, ret'.key)
          /\ HasKey(items, ret'.key) =>
                 KeysOf(items') = KeysOf(items) /\ CacheSize(items') = CacheSize(items)]_vars

\* a full cache of two keys, and the key set last is the one it held second
C24_Witness ==
    /\ maxSize = 2
    /\ Len(hist) = 3
    /\ \A i \in 1..3 : hist[i].op = "set"
    /\ hist[1].key # hist[2].key /\ hist[3].key = hist[2].key
    /\ hist[3].sizeBefore = 2

\* C25: a set of a key already held leaves the cache as delete of that key
\* followed by the same set leaves it, in values, expiries and order: the key
\* becomes the last of the map, the last to be evicted.
C25_SetOfHeldKeyIsDeleteThenSet ==
    [][(started' = started + 1 /\ ret'.op = "set" /\ HasKey(items, ret'.key)) =>
          LET key == ret'.key
              s == lastSet'[key]
          IN  /\ items' = CacheSet(CacheDelete(items, key), key, s.value, s.ttlSeconds,
                                   now, maxSize)
              /\ items'[Len(items')].key = key]_vars

\* two keys were held and the first of them was set again
C25_Witness ==
    /\ maxSize = 2
    /\ Len(hist) = 3
    /\ \A i \in 1..3 : hist[i].op = "set"
    /\ hist[1].key # hist[2].key /\ hist[3].key = hist[1].key
    /\ hist[3].sizeBefore = 2

\* C26: an invocation changes at most one of the limiter and the cache, but
\* for the miss that succeeds (one token taken, then one cache entry set): a
\* hit changes neither the limiter nor the entries of the cache or their
\* order, a call the limiter rejects changes neither, and a call whose request
\* fails changes the limiter alone.
C26_InvocationMutatesAtMostOne ==
    [][/\ (started' = started + 1 /\ ret'.op = "call" /\ ret'.outcome \in {"hit", "rejected"}) =>
              /\ tokens' = tokens /\ lastRefill' = lastRefill
              /\ items' = items
       /\ (started' = started + 1 /\ sent' = sent + 1) => items' = items
       /\ (started' = started /\ ret'.op = "call") =>
              /\ tokens' = tokens /\ lastRefill' = lastRefill
              /\ ret'.outcome # "ok" => items' = items]_vars

\* a call was rejected by the limiter while the cache held an entry or had just lost one
C26_Witness ==
    /\ ret.op = "call" /\ ret.outcome = "rejected"
    /\ now > 0
    /\ sent > 0

(***************************************************************************)
(* The cache keys and the requests of the methods, as functions of the     *)
(* arguments of a call.                                                    *)
(***************************************************************************)
CompanyNumbers == {"00000006", "00000006:all"}
Queries == {"acme", "acme:20"}
Categories == {"", "all", "accounts", "all:all"}

\* the calls compared: each method with the arguments it takes
KeyRequests ==
    {Req("searchCompanies", q, "", l, 0, a) : q \in Queries, l \in {20, 5}, a \in BOOLEAN}
    \cup {Req("getCompanyProfile", n, "", 0, 0, FALSE) : n \in CompanyNumbers}
    \cup {Req("getCompanyOfficers", n, "", l, 0, a) :
             n \in CompanyNumbers, l \in {35, 5}, a \in BOOLEAN}
    \cup {Req("getFilingHistory", n, c, 25, s, FALSE) :
             n \in CompanyNumbers, c \in Categories, s \in {0, 25}}
    \cup {Req("getCompanyCharges", n, "", 25, s, FALSE) : n \in CompanyNumbers, s \in {0, 25}}
    \cup {Req("getPersonsWithSignificantControl", n, "", 25, s, FALSE) :
             n \in CompanyNumbers, s \in {0, 25}}
    \cup {Req("searchOfficers", q, "", l, s, FALSE) : q \in Queries, l \in {35, 5}, s \in {0, 35}}

\* URLSearchParams.toString() of a value: of the characters of the strings
\* above it escapes the colon
UrlEncode(s) ==
    CASE s = "acme:20" -> "acme%3A20"
      [] s = "all:all" -> "all%3Aall"
      [] OTHER -> s

\* the endpoint each method passes to makeRequest
Endpoint(req) ==
    LET page == "items_per_page=" \o ToString(req.limit)
        from == "&start_index=" \o ToString(req.startIndex)
    IN  CASE req.op = "searchCompanies" ->
                 "/search/companies?q=" \o UrlEncode(req.subject) \o "&" \o page
                     \o "&start_index=0"
          [] req.op = "getCompanyProfile" -> "/company/" \o req.subject
          [] req.op = "getCompanyOfficers" ->
                 "/company/" \o req.subject \o "/officers?" \o page \o "&start_index=0"
                     \o (IF req.activeOnly THEN "&register_view=true" ELSE "")
          [] req.op = "getFilingHistory" ->
                 "/company/" \o req.subject \o "/filing-history?" \o page \o from
                     \o (IF req.category # "" THEN "&category=" \o UrlEncode(req.category)
                         ELSE "")
          [] req.op = "getCompanyCharges" ->
                 "/company/" \o req.subject \o "/charges?" \o page \o from
          [] req.op = "getPersonsWithSignificantControl" ->
                 "/company/" \o req.subject \o "/persons-with-significant-control?"
                     \o page \o from
          [] req.op = "searchOfficers" ->
                 "/search/officers?q=" \o UrlEncode(req.subject) \o "&" \o page \o from

\* two calls are about to be made, nothing else in use
KeysInit ==
    /\ now = 0
    /\ maxTokens = 1
    /\ refillInterval = 1
    /\ tokens = 1
    /\ lastRefill = 0
    /\ maxSize = 0
    /\ items = <<>>
    /\ calls = <<>>
    /\ started = 0
    /\ sent = 0
    /\ \E r1, r2 \in KeyRequests : ret = [op |-> "calls", first |-> r1, second |-> r2]
    /\ hist = <<>>
    /\ lastSet = <<>>

\* each call computes its cacheKey and the endpoint it would fetch
ComputeKeys ==
    /\ ret.op = "calls"
    /\ ret' = [op |-> "keys", first |-> ret.first, second |-> ret.second,
               key1 |-> CacheKey(ret.first), key2 |-> CacheKey(ret.second),
               endpoint1 |-> Endpoint(ret.first), endpoint2 |-> Endpoint(ret.second)]
    /\ UNCHANGED <<now, limiterVars, cacheVars, clientVars, hist, lastSet>>

KeysNext == ComputeKeys

SpecKeys == KeysInit /\ [][KeysNext]_vars

\* C27: the cache key is injective over the method and its effective
\* arguments: two calls that would send different requests (another method, or
\* the same method with another query, company number, category, limit, start
\* index or active-only flag) never have the same cache key.
C27_DifferentRequestsDifferentKeys ==
    ret.op = "keys" =>
        ((\/ ret.first.op # ret.second.op
          \/ ret.endpoint1 # ret.endpoint2
          \/ ret.first.activeOnly # ret.second.activeOnly)
             => ret.key1 # ret.key2)

\* the keys of two calls of one method with different arguments were computed
C27_Witness ==
    /\ ret.op = "keys"
    /\ ret.first.op = ret.second.op
    /\ ret.endpoint1 # ret.endpoint2
    /\ ret.key1 # ret.key2

(***************************************************************************)
(* The client with a budget of more than one request, so that calls can be *)
(* in flight together.                                                     *)
(***************************************************************************)
\* new CompaniesHouseClient(apiKey, ClientRate + 1, cacheSize) at time 0
BurstInit ==
    /\ now = 0
    /\ maxTokens = ClientRate + 1
    /\ refillInterval = FiveMinutesMs
    /\ tokens = maxTokens
    /\ lastRefill = 0
    /\ maxSize = ClientCache
    /\ items = <<>>
    /\ calls = [c \in Slots |-> Idle]
    /\ started = 0
    /\ sent = 0
    /\ ret = NoRet
    /\ hist = <<>>
    /\ lastSet = <<>>

SpecBurst == BurstInit /\ [][Next]_vars

\* a call with the key of req is in flight
SameKeyInFlight(req) == \E c \in InFlight : CacheKey(calls[c].req) = CacheKey(req)

\* C29: calls in flight are not de-duplicated: a call made while a call with
\* the same cache key is in flight, the cache having no entry for it, asks the
\* limiter itself, takes its own token and issues its own request; and when a
\* call that was in flight together with another of its key returns a
\* payload, the cache holds that payload under the key, to be hit by later
\* calls.
C29_NoDeduplicationLastWriterStays ==
    [][/\ \A req \in Requests :
             (/\ Invoked(req) /\ ~InvalidQuery(req)
              /\ SameKeyInFlight(req) /\ ~HasKey(items, CacheKey(req))
              /\ RefillTokens(tokens, lastRefill, now, maxTokens, refillInterval).tokens
                     >= TokensPerRequest)
                 => /\ sent' = sent + 1
                    /\ tokens' = RefillTokens(tokens, lastRefill, now, maxTokens,
                                              refillInterval).tokens - TokensPerRequest
                    /\ Cardinality({c \in Slots : calls'[c].pc # "idle"}) = Cardinality(InFlight) + 1
       /\ (/\ started' = started /\ ret'.op = "call" /\ ret'.outcome = "ok"
           /\ \/ ret'.peerStored
              \/ \E c \in Slots : calls'[c].pc # "idle" /\ CacheKey(calls'[c].req) = ret'.key)
              => \E i \in 1..Len(items') :
                     /\ items'[i].key = ret'.key
                     /\ items'[i].value = ret'.value
                     /\ items'[i].expiresAt = now + TtlOf(ret'.req) * 1000]_vars

\* two calls with the same key are in flight, each with its own request and token
C29_Witness ==
    /\ \E c, d \in InFlight : c # d /\ CacheKey(calls[c].req) = CacheKey(calls[d].req)
    /\ sent = 2 /\ tokens = maxTokens - 2

\* C30: the token an admitted call took is not given back when its request
\* fails (fetch rejects, the status is not ok or the body does not parse): the
\* step that ends the call leaves tokens and lastRefill as they are.  So after
\* maxTokens calls that all failed, with no time elapsed, the bucket is empty
\* and the next call that misses the cache is rejected without a request.
C30_FailedRequestKeepsItsToken ==
    [][/\ (ret'.op = "call" /\ ret'.outcome \in FailedOutcomes) =>
              tokens' = tokens /\ lastRefill' = lastRefill
       /\ (/\ now = 0 /\ sent = maxTokens /\ InFlight = {} /\ items = <<>>
           /\ started = sent) =>
              /\ tokens = 0
              /\ \A req \in Requests :
                     Invoked(req) /\ ~InvalidQuery(req) =>
                         /\ ret'.op = "call" /\ ret'.outcome = "rejected"
                         /\ sent' = sent /\ tokens' = 0]_vars

\* the last of maxTokens calls made at one instant has just failed, as those
\* before it, and the bucket is empty
C30_Witness ==
    /\ now = 0 /\ sent = maxTokens /\ started = sent
    /\ ret.op = "call" /\ ret.outcome \in FailedOutcomes
    /\ tokens = 0 /\ items = <<>> /\ InFlight = {}

====
